---- MODULE Spec2Model ----
(***************************************************************************)
(* A model of the SimCity backend (abelzach/SimCity, src/backend):         *)
(*   - core/city_model.py      enrichment, state dict, metrics, GeoJSON    *)
(*   - agents/policy_testing.py   the policy effect applier                *)
(*   - workflow/graph.py       the six-stage workflow and its event stream *)
(*   - api/routes.py           the job store and the SSE endpoint          *)
(*                                                                         *)
(* Numbers.  Python floats are modelled in fixed point:                    *)
(*   congestion_ratio   in units of 1/10000   (Scale = 1.0)                *)
(*   travel_time        in deciseconds                                     *)
(* and the load factors and lengths of the modelled edges are chosen so    *)
(* that every product the applier forms (x1.35, x0.75, x0.70, x0.95,       *)
(* x0.90, /1.10) is exact in these units.                                  *)
(*                                                                         *)
(* Strings that the code searches (edge names, highway classes, keywords)  *)
(* are sequences of one-character strings, so that lower() and the         *)
(* substring test `kw in name` are computed, not assumed.                  *)
(*                                                                         *)
(* Objects.  Python dicts are mutable and passed by reference.  The graph  *)
(* dicts live in `heap`, a map from references to values; the workflow     *)
(* state holds references.  copy.deepcopy allocates a fresh reference.     *)
(*                                                                         *)
(* Specifications.                                                         *)
(*   Spec, FairSpec   one server process running the simulation pipeline   *)
(*   ServiceSpec      the map requests next to overlapping simulation runs *)
(*   PolicySpec       _apply_policy_to_graph called directly               *)
(*   AnalysisSpec     impact_analysis_agent and _severity called directly  *)
(*   EnrichSpec       _enrich_graph called directly, in successive         *)
(*                    processes                                            *)
(***************************************************************************)
EXTENDS Integers, Sequences, FiniteSets, TLC

\* ------------------------------------------------------------------ bounds
\* largest number of edges of an enumerated input graph of the applier
MaxEdges == 4
\* number of simulation jobs POST /simulate may create
MaxJobs == 1
\* number of GET /simulate/{job_id}/stream requests
MaxStreams == 1
\* the simulation runs that overlap in ServiceSpec
MaxRuns == 2

\* 1.0 as a congestion ratio
Scale == 10000

\* ------------------------------------------------------------ small helpers
Max(a, b) == IF a >= b THEN a ELSE b
Min(a, b) == IF a <= b THEN a ELSE b

RECURSIVE SumSeq(_)
SumSeq(s) == IF s = << >> THEN 0 ELSE Head(s) + SumSeq(Tail(s))

\* Python round() of the exact quotient a / b (a >= 0, b > 0): to nearest,
\* ties to even
RoundDiv(a, b) ==
    LET q == a \div b
        r == a % b
    IN  IF 2 * r < b THEN q
        ELSE IF 2 * r > b THEN q + 1
        ELSE IF q % 2 = 0 THEN q ELSE q + 1

\* int() of the exact quotient a / b (a >= 0, b > 0): truncation
TruncDiv(a, b) == a \div b

\* A Python dict is a function whose domain is the set of keys it has; the
\* empty dict {} is the empty function.
EmptyDict == << >>
\* dict.get(key, default)
Get(d, key, default) == IF key \in DOMAIN d THEN d[key] ELSE default
\* d[key] = value
Put(d, key, value) == (key :> value) @@ d

\* ------------------------------------------------------------------ strings
\* str.lower() on one character of the modelled alphabet
LowerChar(c) ==
    CASE c = "M" -> "m"
      [] c = "G" -> "g"
      [] c = "N" -> "n"
      [] c = "H" -> "h"
      [] c = "P" -> "p"
      [] OTHER -> c

Lower(s) == [i \in 1..Len(s) |-> LowerChar(s[i])]

\* Python `kw in s` on strings: kw occurs in s as a contiguous substring
\* (the empty string occurs in every string)
Contains(s, kw) ==
    \E i \in 0..(Len(s) - Len(kw)) :
        \A j \in 1..Len(kw) : s[i + j] = kw[j]

\* --------------------------------------------------- core/city_model.py
HwMotorway == <<"m","o","t","o","r","w","a","y">>
HwTrunk == <<"t","r","u","n","k">>
HwPrimary == <<"p","r","i","m","a","r","y">>
HwSecondary == <<"s","e","c","o","n","d","a","r","y">>
HwTertiary == <<"t","e","r","t","i","a","r","y">>
HwResidential == <<"r","e","s","i","d","e","n","t","i","a","l">>
HwUnclassified == <<"u","n","c","l","a","s","s","i","f","i","e","d">>
HwService == <<"s","e","r","v","i","c","e">>
HwLivingStreet == <<"l","i","v","i","n","g","_","s","t","r","e","e","t">>

\* SPEED_LIMITS.get(highway, 30)
SPEED_LIMITS(hw) ==
    CASE hw = HwMotorway -> 100
      [] hw = HwTrunk -> 80
      [] hw = HwPrimary -> 60
      [] hw = HwSecondary -> 50
      [] hw = HwTertiary -> 40
      [] hw = HwResidential -> 30
      [] hw = HwUnclassified -> 30
      [] hw = HwService -> 20
      [] hw = HwLivingStreet -> 15
      [] OTHER -> 30

\* CAPACITY_PER_LANE.get(highway, 600)
CAPACITY_PER_LANE(hw) ==
    CASE hw = HwMotorway -> 2000
      [] hw = HwTrunk -> 1800
      [] hw = HwPrimary -> 1500
      [] hw = HwSecondary -> 1200
      [] hw = HwTertiary -> 900
      [] hw = HwResidential -> 600
      [] hw = HwUnclassified -> 600
      [] hw = HwService -> 400
      [] hw = HwLivingStreet -> 300
      [] OTHER -> 600

\* One edge of the enriched graph G (the attributes _enrich_graph sets on a
\* raw OSM edge), given the load factor its generator draws.
\*   raw: [u, v, key, highway, lanes, length, name]
EnrichEdge(raw, load_factor) ==
    LET speed == SPEED_LIMITS(raw.highway)
        capacity == CAPACITY_PER_LANE(raw.highway) * raw.lanes
    IN  [u |-> raw.u, v |-> raw.v, key |-> raw.key,
         highway |-> raw.highway, name |-> raw.name,
         lanes |-> raw.lanes, length |-> raw.length,
         speed_kph |-> speed,
         capacity |-> capacity,
         \* length / (speed / 3.6) seconds, in deciseconds
         travel_time |-> (raw.length * 36) \div speed,
         \* int(capacity * load_factor)
         baseline_flow |-> TruncDiv(capacity * load_factor, Scale),
         congestion_ratio |-> load_factor]

\* The nodes an edge list touches (G's node set: every edge endpoint)
NodesOf(edges) == {edges[i].u : i \in 1..Len(edges)} \cup {edges[i].v : i \in 1..Len(edges)}

\* graph_to_state_dict: G -> graph_data.  G is [nodes, edges], edges a
\* sequence in G.edges() order; graph_data["edges"] keeps that order (dict
\* insertion order) and the edge id "u-v-key" is the position in it.  The
\* keys the applier adds later (closed, policy_applied,
\* primary_affected_edges) are absent.
graph_to_state_dict(G) ==
    [nodes |-> G.nodes,
     edges |-> [i \in 1..Len(G.edges) |->
                  [u |-> G.edges[i].u, v |-> G.edges[i].v, key |-> G.edges[i].key,
                   length |-> G.edges[i].length,
                   highway |-> G.edges[i].highway,
                   name |-> G.edges[i].name,
                   capacity |-> G.edges[i].capacity,
                   speed_kph |-> G.edges[i].speed_kph,
                   baseline_flow |-> G.edges[i].baseline_flow,
                   congestion_ratio |-> G.edges[i].congestion_ratio,
                   travel_time |-> G.edges[i].travel_time]],
     node_count |-> Cardinality(G.nodes),
     edge_count |-> Len(G.edges)]

\* the empty dict {} compute_baseline_metrics returns for a graph without edges
EmptyMetrics == EmptyDict

\* compute_baseline_metrics(graph_data).  Units of the result:
\*   avg_congestion_ratio 1/1000, severe_congestion_pct 0.1 %,
\*   avg_travel_time_min 0.01 min, daily_co2_kg 0.1 kg, economic loss 1 INR
compute_baseline_metrics(graph_data) ==
    LET edges == graph_data.edges
        total_edges == Len(edges)
        sum_c == SumSeq([i \in 1..total_edges |-> edges[i].congestion_ratio])
        sum_tt == SumSeq([i \in 1..total_edges |-> edges[i].travel_time])
        sum_len == SumSeq([i \in 1..total_edges |-> edges[i].length])
        total_flow == SumSeq([i \in 1..total_edges |-> edges[i].baseline_flow])
        severe_count == Cardinality({i \in 1..total_edges : edges[i].congestion_ratio > 8000})
        \* max(0, avg_congestion - 0.4), in 1/10000
        delay_fraction == Max(0, (sum_c \div total_edges) - 4000)
        \* avg travel time (ds) * delay fraction, in 1/100 s
        delay_time == ((sum_tt \div total_edges) * delay_fraction) \div 1000
    IN  IF total_edges = 0 THEN EmptyMetrics
        ELSE [avg_congestion_ratio |-> RoundDiv(sum_c, total_edges * 10),
              severe_congestion_pct |-> RoundDiv(severe_count * 1000, total_edges),
              avg_travel_time_min |-> RoundDiv(sum_tt, total_edges * 6),
              total_vehicle_flow |-> total_flow,
              \* total_flow * avg_length_km * 0.21 * 8
              daily_co2_kg |-> RoundDiv(total_flow * sum_len * 21, total_edges * 1250),
              \* total_flow * (delay_time_min / 60) * 50 * 8
              economic_loss_inr_per_day |-> RoundDiv(total_flow * delay_time, 900),
              total_edges |-> total_edges,
              total_nodes |-> graph_data.node_count]

\* ------------------------------------------------ agents/policy_testing.py
\* POLICY_EFFECTS, as percentages
congestion_multiplier_surrounding == 135
congestion_reduction_corridor(policy_type) == IF policy_type = "new_route" THEN 75 ELSE 70
modal_shift_factor(policy_type) == IF policy_type = "new_route" THEN 15 ELSE 20
congestion_reduction_network == 90
speed_improvement == 110

\* DeepCopyRef without the copy: modified is the caller's object
DeepCopyAliased(src, fresh) == src

\* copy.deepcopy(graph_data): the result is a fresh object, `fresh`, that
\* shares nothing with the object `src` refers to
DeepCopyRef(src, fresh) == fresh

\* [k.lower() for k in policy_params.get("affected_road_keywords", [])]
KeywordsOf(policy_params) ==
    LET kws == Get(policy_params, "affected_road_keywords", << >>)
    IN  [i \in 1..Len(kws) |-> Lower(kws[i])]

\* TargetCount with round() in place of int()
TargetCountRounded(total_edges, policy_params) ==
    LET pct == Get(policy_params, "estimated_affected_edges_pct", 5)
    IN  Max(1, RoundDiv(total_edges * pct, 100))

\* target_count = max(1, int(total_edges * affected_pct)), affected_pct the
\* percentage / 100
TargetCount(total_edges, policy_params) ==
    LET pct == Get(policy_params, "estimated_affected_edges_pct", 5)
    IN  Max(1, TruncDiv(total_edges * pct, 100))

\* keywords and any(kw in name or kw in hw for kw in keywords)
EdgeMatches(edata, keywords) ==
    /\ keywords # << >>
    /\ \E k \in 1..Len(keywords) :
          \/ Contains(Lower(edata.name), keywords[k])
          \/ Contains(Lower(edata.highway), keywords[k])

\* matching_edges after the first loop: the matching edge ids in
\* edges.items() order
KeywordMatches(edges, keywords) ==
    SelectSeq([i \in 1..Len(edges) |-> i], LAMBDA i : EdgeMatches(edges[i], keywords))

\* SortedByCongestion without reverse=True: ascending, stable
SortedAscending(edges, ids) ==
    LET before(f, e) ==
            \/ edges[f].congestion_ratio < edges[e].congestion_ratio
            \/ edges[f].congestion_ratio = edges[e].congestion_ratio /\ f < e
        rank(e) == 1 + Cardinality({f \in ids : before(f, e)})
    IN  [p \in 1..Cardinality(ids) |-> CHOOSE e \in ids : rank(e) = p]

\* sorted(..., key=congestion_ratio, reverse=True) over the edges not in
\* matching_edges: descending, and stable (equal ratios keep iteration order)
SortedByCongestion(edges, ids) ==
    LET before(f, e) ==
            \/ edges[f].congestion_ratio > edges[e].congestion_ratio
            \/ edges[f].congestion_ratio = edges[e].congestion_ratio /\ f < e
        rank(e) == 1 + Cardinality({f \in ids : before(f, e)})
    IN  [p \in 1..Cardinality(ids) |-> CHOOSE e \in ids : rank(e) = p]

\* matching_edges after the supplement step
MatchingEdges(edges, keywords, target_count) ==
    LET matching == KeywordMatches(edges, keywords)
        matched == {matching[i] : i \in 1..Len(matching)}
        sorted_by_congestion == SortedByCongestion(edges, (1..Len(edges)) \ matched)
        take == Min(target_count - Len(matching), Len(sorted_by_congestion))
    IN  IF Len(matching) < target_count
        THEN matching \o SubSeq(sorted_by_congestion, 1, take)
        ELSE matching

\* matching_edges[:target_count]
PrimarySeq(edges, keywords, target_count) ==
    LET m == MatchingEdges(edges, keywords, target_count)
    IN  SubSeq(m, 1, Min(target_count, Len(m)))

\* primary_edges = set(matching_edges[:target_count])
PrimaryEdges(edges, keywords, target_count) ==
    LET p == PrimarySeq(edges, keywords, target_count)
    IN  {p[i] : i \in 1..Len(p)}

\* other_edges = [eid for eid in edges if eid not in primary_edges]
OtherEdges(edges, primary_edges) == (1..Len(edges)) \ primary_edges

\* SpillCount with the factor 2
SpillCountDouble(other_edges, target_count) == Min(Cardinality(other_edges), target_count * 2)

\* spill_count = min(len(other_edges), target_count * 3)
SpillCount(other_edges, target_count) == Min(Cardinality(other_edges), target_count * 3)

\* what rng.choice(other_edges, size=spill_count, replace=False) can return:
\* the generator is seeded with 42, so the sample is one fixed subset of that
\* size; which one is numpy's business, and the model allows each
SpillChoices(other_edges, spill_count) ==
    {S \in SUBSET other_edges : Cardinality(S) = spill_count}

\* ClosePrimary without the assignment to baseline_flow
ClosePrimaryKeepingFlow(e) ==
    Put([e EXCEPT !.congestion_ratio = 0], "closed", TRUE)

\* the three assignments to a primary edge under road_closure
ClosePrimary(e) ==
    Put([e EXCEPT !.congestion_ratio = 0, !.baseline_flow = 0], "closed", TRUE)

\* Spillover without the cap
SpilloverUncapped(e) ==
    [e EXCEPT !.congestion_ratio =
        (e.congestion_ratio * congestion_multiplier_surrounding) \div 100]

\* min(1.0, congestion_ratio * 1.35) on a spillover edge
Spillover(e) ==
    [e EXCEPT !.congestion_ratio =
        Min(Scale, (e.congestion_ratio * congestion_multiplier_surrounding) \div 100)]

\* ShiftPrimary with the road_closure multiplier as the factor
ShiftPrimarySurrounding(e, policy_type) ==
    [e EXCEPT !.congestion_ratio =
                  Max(1000, (e.congestion_ratio * congestion_multiplier_surrounding) \div 100),
              !.baseline_flow =
                  TruncDiv(e.baseline_flow * (100 - modal_shift_factor(policy_type)), 100)]

\* the two assignments to a primary edge under new_route / transit_add
ShiftPrimary(e, policy_type) ==
    [e EXCEPT !.congestion_ratio =
                  Max(1000, (e.congestion_ratio * congestion_reduction_corridor(policy_type)) \div 100),
              !.baseline_flow =
                  TruncDiv(e.baseline_flow * (100 - modal_shift_factor(policy_type)), 100)]

\* RelieveOther with the signal_timing factor
RelieveOtherByNetworkFactor(e) ==
    [e EXCEPT !.congestion_ratio =
        Max(1000, (e.congestion_ratio * congestion_reduction_network) \div 100)]

\* max(0.1, congestion_ratio * 0.95) on a non-primary edge, network-wide scope
RelieveOther(e) ==
    [e EXCEPT !.congestion_ratio = Max(1000, (e.congestion_ratio * 95) \div 100)]

\* RetimeEdge multiplying the travel time by speed_improvement
RetimeEdgeMultiplying(e) ==
    [e EXCEPT !.congestion_ratio =
                  Max(1000, (e.congestion_ratio * congestion_reduction_network) \div 100),
              !.travel_time = (e.travel_time * speed_improvement) \div 100]

\* the two assignments to every edge under signal_timing
RetimeEdge(e) ==
    [e EXCEPT !.congestion_ratio =
                  Max(1000, (e.congestion_ratio * congestion_reduction_network) \div 100),
              !.travel_time = (e.travel_time * 100) \div speed_improvement]

\* the if / elif chain on policy_type, as it bears on the edge with id i
EdgeAfter(edges, i, policy_type, scope, primary_edges, spill_edges) ==
    IF policy_type = "road_closure"
    THEN IF i \in primary_edges /\ i \in spill_edges THEN Spillover(ClosePrimary(edges[i]))
         ELSE IF i \in primary_edges THEN ClosePrimary(edges[i])
         ELSE IF i \in spill_edges THEN Spillover(edges[i])
         ELSE edges[i]
    ELSE IF policy_type \in {"new_route", "transit_add"}
    THEN IF i \in primary_edges THEN ShiftPrimary(edges[i], policy_type)
         ELSE IF scope = "network-wide" THEN RelieveOther(edges[i])
         ELSE edges[i]
    ELSE IF policy_type = "signal_timing"
    THEN RetimeEdge(edges[i])
    ELSE edges[i]

\* ApplyEffects deleting the closed edges from the dict
ApplyEffectsDroppingClosed(edges, policy_type, scope, primary_edges, spill_edges) ==
    SelectSeq([i \in 1..Len(edges) |->
                  EdgeAfter(edges, i, policy_type, scope, primary_edges, spill_edges)],
              LAMBDA e : "closed" \notin DOMAIN e)

\* the edges dict after the effects: the loops assign to attributes of the
\* entries and neither insert nor delete a key
ApplyEffects(edges, policy_type, scope, primary_edges, spill_edges) ==
    [i \in 1..Len(edges) |->
        EdgeAfter(edges, i, policy_type, scope, primary_edges, spill_edges)]

\* the inputs of one call that the code derives before touching an edge
PolicyType(policy_params) == Get(policy_params, "policy_type", "road_closure")
PolicyScope(policy_params) == Get(policy_params, "scope", "local")

\* The sets of spillover edges a call may draw (empty unless road_closure: the
\* generator is only used in that branch)
SpillOptions(graph_data, policy_params) ==
    LET edges == graph_data.edges
        target_count == TargetCount(Len(edges), policy_params)
        primary_edges == PrimaryEdges(edges, KeywordsOf(policy_params), target_count)
        other_edges == OtherEdges(edges, primary_edges)
    IN  IF PolicyType(policy_params) = "road_closure"
        THEN SpillChoices(other_edges, SpillCount(other_edges, target_count))
        ELSE {{}}

\* _apply_policy_to_graph(graph_data, policy_params) on the heap h, where
\* graph_data is the reference src, `fresh` is the reference deepcopy
\* allocates and spill_edges is the sample the generator returns.
\* Returns the heap after the call and the reference returned.
apply_policy_to_graph(h, src, fresh, policy_params, spill_edges) ==
    LET modified == DeepCopyRef(src, fresh)
        h1 == [h EXCEPT ![modified] = h[src]]
        edges == h1[modified].edges
        policy_type == PolicyType(policy_params)
        keywords == KeywordsOf(policy_params)
        scope == PolicyScope(policy_params)
        target_count == TargetCount(Len(edges), policy_params)
        primary_edges == PrimaryEdges(edges, keywords, target_count)
        new_edges == ApplyEffects(edges, policy_type, scope, primary_edges, spill_edges)
    IN  [heap |-> [h1 EXCEPT ![modified] =
                      Put(Put([h1[modified] EXCEPT !.edges = new_edges],
                              "policy_applied", policy_type),
                          "primary_affected_edges", primary_edges)],
         ret |-> modified]

\* ---------------------------------------------- agents/impact_analysis.py
\* round() of a signed quotient (b > 0)
RoundDivSigned(a, b) == IF a >= 0 THEN RoundDiv(a, b) ELSE 0 - RoundDiv(0 - a, b)

\* severity with <= and >= in place of < and >
severityInclusive(n, d, direction) ==
    IF direction = "lower_is_better"
    THEN IF n <= (0 - 15) * d THEN "highly_positive"
         ELSE IF n <= (0 - 5) * d THEN "positive"
         ELSE IF n <= 5 * d THEN "neutral"
         ELSE IF n <= 15 * d THEN "negative"
         ELSE "highly_negative"
    ELSE IF n >= 15 * d THEN "highly_positive"
         ELSE IF n >= 5 * d THEN "positive"
         ELSE IF n >= (0 - 5) * d THEN "neutral"
         ELSE IF n >= (0 - 15) * d THEN "negative"
         ELSE "highly_negative"

\* severity whose higher_is_better thresholds are inclusive while the
\* lower_is_better ones stay strict
severityHigherInclusive(n, d, direction) ==
    IF direction = "lower_is_better"
    THEN IF n < (0 - 15) * d THEN "highly_positive"
         ELSE IF n < (0 - 5) * d THEN "positive"
         ELSE IF n < 5 * d THEN "neutral"
         ELSE IF n < 15 * d THEN "negative"
         ELSE "highly_negative"
    ELSE IF n >= 15 * d THEN "highly_positive"
         ELSE IF n >= 5 * d THEN "positive"
         ELSE IF n >= (0 - 5) * d THEN "neutral"
         ELSE IF n >= (0 - 15) * d THEN "negative"
         ELSE "highly_negative"

\* _severity(delta_pct, direction) for delta_pct = n / d  (d > 0)
severity(n, d, direction) ==
    IF direction = "lower_is_better"
    THEN IF n < (0 - 15) * d THEN "highly_positive"
         ELSE IF n < (0 - 5) * d THEN "positive"
         ELSE IF n < 5 * d THEN "neutral"
         ELSE IF n < 15 * d THEN "negative"
         ELSE "highly_negative"
    ELSE IF n > 15 * d THEN "highly_positive"
         ELSE IF n > 5 * d THEN "positive"
         ELSE IF n > (0 - 5) * d THEN "neutral"
         ELSE IF n > (0 - 15) * d THEN "negative"
         ELSE "highly_negative"

\* pct_change cutting the decimals after the first instead of rounding
pct_changeTruncating(before, after) ==
    IF before = 0 THEN 0 ELSE ((after - before) * 1000) \div before

\* pct_change(before, after), in units of 0.1 %
pct_change(before, after) ==
    IF before = 0 THEN 0 ELSE RoundDivSigned((after - before) * 1000, before)

\* one entry of impact_scores for a network metric
MetricImpact(baseline, post, key) ==
    LET before == Get(baseline, key, 0)
        after == Get(post, key, 0)
        delta == pct_change(before, after)
    IN  [before |-> before, after |-> after, delta_pct |-> delta,
         severity |-> severity(delta, 10, "lower_is_better")]

\* The two numeric fields of a citizen profile are JSON values, which the
\* modeller may return as a number or as something else (a string, null)
JNum(n) == <<"number", n>>
NotANumber == <<"string", 0>>
IsNum(v) == v[1] = "number"
Val(v) == v[2]

\* The sums the analyzer takes raise TypeError on a value that is no number:
\* total_pop adds every affected_population, and only when total_pop > 0 are
\* the products impact_score * affected_population added up
ProfilesRaise(citizen_profiles) ==
    LET n == Len(citizen_profiles)
        pops == [i \in 1..n |-> Get(citizen_profiles[i], "affected_population", JNum(1))]
    IN  /\ n > 0
        /\ \/ \E i \in 1..n : ~IsNum(pops[i])
           \/ /\ SumSeq([i \in 1..n |-> Val(pops[i])]) > 0
              /\ \E i \in 1..n : ~IsNum(Get(citizen_profiles[i], "impact_score", JNum(0)))

\* the citizen_satisfaction entry falling back to the plain mean of the scores
\* when nobody is affected
CitizenSatisfactionPlainMean(citizen_profiles) ==
    LET n == Len(citizen_profiles)
        total_pop == SumSeq([i \in 1..n |->
                        Val(Get(citizen_profiles[i], "affected_population", JNum(1)))])
        weighted == SumSeq([i \in 1..n |->
                        Val(Get(citizen_profiles[i], "impact_score", JNum(0)))
                          * Val(Get(citizen_profiles[i], "affected_population", JNum(0)))])
        plain == SumSeq([i \in 1..n |->
                        Val(Get(citizen_profiles[i], "impact_score", JNum(0)))])
        num == IF total_pop > 0 THEN weighted ELSE plain
        den == IF total_pop > 0 THEN total_pop ELSE n
    IN  [score |-> IF n > 0 THEN RoundDivSigned(num * 100, den) ELSE 0,
         severity |-> IF n > 0 THEN severity((0 - num) * 10, den, "lower_is_better")
                      ELSE severity(0, 1, "lower_is_better")]

\* the citizen_satisfaction entry.  score is round(overall_satisfaction, 2)
\* in units of 0.01; the severity is taken of -overall_satisfaction * 10
CitizenSatisfaction(citizen_profiles) ==
    LET n == Len(citizen_profiles)
        total_pop == SumSeq([i \in 1..n |->
                        Val(Get(citizen_profiles[i], "affected_population", JNum(1)))])
        weighted == SumSeq([i \in 1..n |->
                        Val(Get(citizen_profiles[i], "impact_score", JNum(0)))
                          * Val(Get(citizen_profiles[i], "affected_population", JNum(0)))])
        has == n > 0 /\ total_pop > 0
    IN  [score |-> IF has THEN RoundDivSigned(weighted * 100, total_pop) ELSE 0,
         severity |-> IF has THEN severity((0 - weighted) * 10, total_pop, "lower_is_better")
                      ELSE severity(0, 1, "lower_is_better")]

\* impact_scores, given that no exception is raised
ImpactScores(baseline, post, citizen_profiles) ==
    [congestion |-> MetricImpact(baseline, post, "avg_congestion_ratio"),
     travel_time |-> MetricImpact(baseline, post, "avg_travel_time_min"),
     co2_emissions |-> MetricImpact(baseline, post, "daily_co2_kg"),
     economic_loss |-> MetricImpact(baseline, post, "economic_loss_inr_per_day"),
     severe_congestion_roads |-> MetricImpact(baseline, post, "severe_congestion_pct"),
     citizen_satisfaction |-> CitizenSatisfaction(citizen_profiles)]

\* ------------------------------------------------------------ the program
VARIABLES
    graphCache,      \* GRAPH_CACHE: the pickled enriched graph, or NoFile
    geojsonCache,    \* GEOJSON_CACHE: the GeoJSON file, or NoFile
    compiled,        \* _compiled_workflow is not None
    jobs,            \* _jobs: job id -> job, NoJob for an id not yet issued
    streams,         \* the event_generator of each stream request
    heap,            \* the graph_data dicts, by reference
    call             \* the direct call of a function (PolicySpec, AnalysisSpec, EnrichSpec)

vars == <<graphCache, geojsonCache, compiled, jobs, streams, heap, call>>

JobIds == 1..MaxJobs
StreamIds == 1..MaxStreams

\* what stands where there is no file, no job under an id, no generator, no
\* object behind a reference: the empty function, which equals no record
NoFile == << >>
NoJob == << >>
NoStream == << >>
Null == << >>
\* Python's None, where the other values are records (a job's result)
NoResult == << >>
\* Python's None, where the other values are strings
None == "None"

\* References: two graph_data objects per run (the one data_ingestion builds
\* and the one deepcopy allocates), and two for a direct call.
Refs == ((StreamIds \cup {0}) \X {"city_graph_data", "modified_graph_data"})
CityRef(s) == <<s, "city_graph_data">>
FreshRef(s) == <<s, "modified_graph_data">>

\* ---------------------------------------------------------- modelled inputs
NameMG == <<"M", "G">>
NameNH == <<"N", "H">>
NoName == << >>

\* what the OSM download can return for the requested city: a road network
\* of three segments, or one with no segment at all
OsmCity ==
    << [u |-> 1, v |-> 2, key |-> 0, highway |-> HwPrimary, lanes |-> 2, length |-> 110, name |-> NameMG],
       [u |-> 2, v |-> 3, key |-> 0, highway |-> HwResidential, lanes |-> 1, length |-> 110, name |-> NoName],
       [u |-> 2, v |-> 3, key |-> 1, highway |-> HwResidential, lanes |-> 1, length |-> 55, name |-> NoName] >>
OsmGraphs == {OsmCity, << >>}

\* the load factors the per-edge generators draw, uniform in [0.4, 0.8)
LoadFactors == <<4000, 5000, 7600>>

\* hash() of a str is salted: the interpreter draws the salt when it starts
\* (PYTHONHASHSEED unset), so it is one value throughout a process and may be
\* another in the next process
HashSalts == {0, 1}

\* rng = default_rng(abs(hash("u-v-key")) % 2**32); rng.uniform(0.4, 0.8):
\* a function of the edge id and of the salt of the process
LoadFactorOf(salt, u, v, key) ==
    LoadFactors[((salt + u + 2 * v + key) % Len(LoadFactors)) + 1]

\* _enrich_graph, in a process whose hash salt is `salt`
enrich_graph(raw_edges, salt) ==
    LET edges == [i \in 1..Len(raw_edges) |->
                    EnrichEdge(raw_edges[i],
                               LoadFactorOf(salt, raw_edges[i].u, raw_edges[i].v,
                                            raw_edges[i].key))]
    IN  [nodes |-> NodesOf(edges), edges |-> edges]

\* what the policy parser returns in a run (the LLM's JSON, or the default
\* of the except branch); Malformed stands for JSON that is a list, not an object
Malformed == [not_a_dict |-> "list"]
DefaultParams ==
    [policy_type |-> "road_closure", affected_road_keywords |-> << >>,
     scope |-> "local", estimated_affected_edges_pct |-> 5]
RunPolicies ==
    {DefaultParams,
     [policy_type |-> "signal_timing", affected_road_keywords |-> <<NameMG>>,
      scope |-> "network-wide", estimated_affected_edges_pct |-> 30],
     [policy_type |-> "new_route", affected_road_keywords |-> <<NameMG>>,
      scope |-> "corridor", estimated_affected_edges_pct |-> 30]}

\* what the citizen modeller returns in a run
LlmProfiles ==
    << [group |-> "Daily Commuters", impact_score |-> JNum(10), affected_population |-> JNum(100),
        impact_sentiment |-> "positive"],
       [group |-> "Students", impact_score |-> JNum(0 - 10), affected_population |-> JNum(100),
        impact_sentiment |-> "negative"] >>
BadProfiles ==
    << [group |-> "Daily Commuters", impact_score |-> JNum(5), affected_population |-> NotANumber,
        impact_sentiment |-> "positive"] >>
\* the static fallback: impact_score 0, affected_population size // 3
FallbackProfiles ==
    << [group |-> "Daily Commuters", impact_score |-> JNum(0), affected_population |-> JNum(150000),
        impact_sentiment |-> "mixed"],
       [group |-> "Students", impact_score |-> JNum(0), affected_population |-> JNum(60000),
        impact_sentiment |-> "mixed"] >>
RunProfiles == {LlmProfiles, BadProfiles, FallbackProfiles}

\* ----------------------------------------------------- workflow/graph.py
\* the nodes of build_workflow, in the order its edges chain them
Stages == <<"data_ingestion", "simulation_engine", "citizen_proxy",
            "policy_testing", "impact_analysis", "recommendation">>
END == "__end__"

StageIndex(node) == CHOOSE i \in 1..Len(Stages) : Stages[i] = node

\* NextNode with the route of one conditional edge pointing one node too far
NextNodeSkipping(node, state) ==
    IF node = "recommendation" THEN END
    ELSE IF state.status = "error" THEN END
    ELSE IF node = "simulation_engine" THEN "policy_testing"
    ELSE Stages[StageIndex(node) + 1]

\* NextNode with plain edges in place of the conditional ones
NextNodeIgnoringError(node, state) ==
    IF node = "recommendation" THEN END
    ELSE Stages[StageIndex(node) + 1]

\* the conditional edge out of `node` (add_conditional_edges), and the plain
\* edge out of recommendation (add_edge)
NextNode(node, state) ==
    IF node = "recommendation" THEN END
    ELSE IF state.status = "error" THEN END
    ELSE Stages[StageIndex(node) + 1]

\* initial_state of run_simulation_stream
InitialState ==
    [policy_type |-> "", city_graph_data |-> EmptyDict, baseline_metrics |-> EmptyMetrics,
     modified_graph_data |-> EmptyDict, citizen_profiles |-> << >>,
     simulation_results |-> EmptyDict, impact_scores |-> EmptyDict,
     recommendations |-> "", agent_logs |-> << >>, status |-> "running", error |-> None]

\* the update every agent returns from its except branch
ErrorUpdate(state, node) ==
    [state EXCEPT !.status = "error",
                  !.error = node,
                  !.agent_logs = Append(state.agent_logs, <<node, "error">>)]

OkLog(state, node) == Append(state.agent_logs, <<node, "ok">>)

\* fetch_city_graph: the graph returned and the cache file afterwards.
\* osm is the raw graph downloaded when there is no cache file, salt the hash
\* salt of the process.  A server process enriches at most once (the cache
\* file is written with the first graph enriched and never refreshed), so the
\* salt is drawn where the one enrichment happens.
fetch_city_graph(cache, osm, salt) ==
    IF cache # NoFile THEN [G |-> cache, cache |-> cache]
    ELSE [G |-> enrich_graph(osm, salt), cache |-> enrich_graph(osm, salt)]

\* data_ingestion_agent, the try branch: state and heap after it
data_ingestion_ok(s, state, h, G) ==
    LET graph_data == graph_to_state_dict(G)
    IN  [state |-> [state EXCEPT !.city_graph_data = CityRef(s),
                                 !.baseline_metrics = compute_baseline_metrics(graph_data),
                                 !.agent_logs = OkLog(state, "data_ingestion"),
                                 !.status = "running"],
         heap |-> [h EXCEPT ![CityRef(s)] = graph_data]]

MaxOf(S) == CHOOSE x \in S : \A y \in S : y <= x

\* simulation_engine_agent: np.max of an empty list raises, which the agent
\* turns into an error update
simulation_engine_agent(state, h) ==
    LET edges == h[state.city_graph_data].edges
        n == Len(edges)
        ratios == {edges[i].congestion_ratio : i \in 1..n}
    IN  IF state.city_graph_data = EmptyDict
        THEN ErrorUpdate(state, "simulation_engine")   \* graph_data["edges"]: KeyError
        ELSE IF n = 0 THEN ErrorUpdate(state, "simulation_engine")
        ELSE [state EXCEPT
                !.simulation_results =
                    [simulation_type |-> "baseline",
                     avg_network_congestion |->
                         RoundDiv(SumSeq([i \in 1..n |-> edges[i].congestion_ratio]), n * 10),
                     peak_congestion_ratio |-> RoundDiv(MaxOf(ratios), 10)],
                !.agent_logs = OkLog(state, "simulation_engine"),
                !.status = "running"]

\* citizen_proxy_agent: both branches return status running
citizen_proxy_agent(state, profiles) ==
    [state EXCEPT !.citizen_profiles = profiles,
                  !.agent_logs = OkLog(state, "citizen_proxy"),
                  !.status = "running"]

\* policy_testing_agent: state and heap after it.  policy_params is what
\* _parse_policy_with_llm returned; a value that is no dict makes .get raise,
\* and so does graph_data["edges"] on the initial {}.  r is the result of the
\* one call of _apply_policy_to_graph the agent makes.
policy_testing_agent(s, state, h, policy_params, spill_edges) ==
    IF state.city_graph_data = EmptyDict \/ "not_a_dict" \in DOMAIN policy_params
    THEN [state |-> ErrorUpdate(state, "policy_testing"), heap |-> h]
    ELSE CHOOSE update \in
             {LET modified_graph == r.heap[r.ret]
              IN  [state |->
                      [state EXCEPT
                          !.policy_type = PolicyType(policy_params),
                          !.modified_graph_data = r.ret,
                          !.simulation_results =
                              [post_policy_metrics |-> compute_baseline_metrics(modified_graph),
                               policy_params |-> policy_params,
                               affected_edge_count |->
                                   Cardinality(Get(modified_graph, "primary_affected_edges", {}))]
                              @@ state.simulation_results,
                          !.agent_logs = OkLog(state, "policy_testing"),
                          !.status = "running"],
                   heap |-> r.heap]
              : r \in {apply_policy_to_graph(h, state.city_graph_data, FreshRef(s),
                                             policy_params, spill_edges)}} : TRUE

\* impact_analysis_agent
impact_analysis_agent(state) ==
    LET profiles == state.citizen_profiles
        post == Get(state.simulation_results, "post_policy_metrics", EmptyMetrics)
    IN  IF ProfilesRaise(profiles)
        THEN ErrorUpdate(state, "impact_analysis")
        ELSE [state EXCEPT
                !.impact_scores = ImpactScores(state.baseline_metrics, post, profiles),
                !.agent_logs = OkLog(state, "impact_analysis"),
                !.status = "running"]

\* recommendation_agent: the report or the fallback report, status completed
recommendation_agent(state) ==
    [state EXCEPT !.recommendations = "report",
                  !.agent_logs = OkLog(state, "recommendation"),
                  !.status = "completed"]

\* state_dict_to_graph followed by graph_to_geojson(G), modified_edges None:
\* the features (one per edge, in edge order) and the cache file afterwards.
\* With a cache file the features are read from it and G is not looked at;
\* without one they are computed from G and written to the file.
congestion_level(ratio) ==
    IF ratio < 4000 THEN "free"
    ELSE IF ratio < 6000 THEN "moderate"
    ELSE IF ratio < 8000 THEN "heavy"
    ELSE "severe"

Features(edges) ==
    [i \in 1..Len(edges) |->
        [edge_id |-> i,
         baseline_flow |-> edges[i].baseline_flow,
         congestion_ratio |-> RoundDiv(edges[i].congestion_ratio, 10),
         congestion_level |-> congestion_level(edges[i].congestion_ratio),
         is_modified |-> FALSE,
         is_closed |-> FALSE]]

FeatureCollection(edges) == [type |-> "FeatureCollection", features |-> Features(edges)]

graph_to_geojson(edges, cache) ==
    IF cache # NoFile THEN [geojson |-> cache, cache |-> cache]
    ELSE [geojson |-> FeatureCollection(edges), cache |-> FeatureCollection(edges)]

\* the events, each a dict with the keys the code gives it
StartEvent == [type |-> "start", agent |-> "orchestrator"]
CompleteEvent == [type |-> "complete"]
ErrorEvent == [type |-> "error"]
DataEvent(key, data) == [type |-> "data", key |-> key, data |-> data]

\* AgentComplete with the status left at its default
AgentCompleteDefaultStatus(node, state) ==
    [type |-> "agent_complete", agent |-> node,
     message |-> state.agent_logs[Len(state.agent_logs)],
     status |-> "running"]

\* the agent_complete event of the node that just ran
AgentComplete(node, state) ==
    [type |-> "agent_complete", agent |-> node,
     message |-> state.agent_logs[Len(state.agent_logs)],
     status |-> state.status]

\* node_output.get(key, default): the update an agent returns from its except
\* branch has no key but status, error and agent_logs
OutputGet(state, key, default) ==
    IF state.status = "error" THEN default ELSE state[key]

\* whether run_simulation_stream yields a data event after `node`
HasDataEvent(node, state) ==
    \/ node \in {"data_ingestion", "citizen_proxy", "impact_analysis", "recommendation"}
    \/ node = "policy_testing" /\ OutputGet(state, "modified_graph_data", EmptyDict) # EmptyDict

DataKey(node) ==
    CASE node = "data_ingestion" -> "baseline_metrics"
      [] node = "citizen_proxy" -> "citizen_profiles"
      [] node = "policy_testing" -> "modified_graph_data"
      [] node = "impact_analysis" -> "impact_scores"
      [] node = "recommendation" -> "recommendations"

\* accumulated at the start of event_generator
InitialAccumulated ==
    [baseline_metrics |-> EmptyDict, impact_scores |-> EmptyDict,
     citizen_profiles |-> << >>, recommendations |-> ""]

\* ------------------------------------------------------------ api/routes.py
\* POST /simulate: a job under a fresh id
start_simulation(j) ==
    /\ jobs[j] = NoJob
    /\ \A i \in DOMAIN jobs : i < j => jobs[i] # NoJob
    /\ jobs' = [jobs EXCEPT ![j] = [id |-> j, status |-> "queued", result |-> NoResult]]
    /\ UNCHANGED <<graphCache, geojsonCache, compiled, streams, heap, call>>

\* GET /simulate/{job_id}/stream for a known job: the response holds a new
\* event_generator, which has not run yet
stream_simulation(s, j) ==
    /\ streams[s] = NoStream
    /\ \A i \in DOMAIN streams : i < s => streams[i] # NoStream
    /\ jobs[j] # NoJob
    /\ streams' = [streams EXCEPT ![s] =
                      [job |-> j, pc |-> "created", node |-> None,
                       state |-> InitialState, accumulated |-> InitialAccumulated,
                       events |-> << >>]]
    /\ UNCHANGED <<graphCache, geojsonCache, compiled, jobs, heap, call>>

Yield(s, pc, ev) ==
    [streams[s] EXCEPT !.pc = pc, !.events = Append(@, ev)]

\* first resumption: the job is marked running, run_simulation_stream gets
\* the workflow and yields the start event
PullStart(s) ==
    /\ streams[s] # NoStream
    /\ streams[s].pc = "created"
    /\ jobs' = [jobs EXCEPT ![streams[s].job].status = "running"]
    /\ compiled' = TRUE
    /\ streams' = [streams EXCEPT ![s] = Yield(s, "start", StartEvent)]
    /\ UNCHANGED <<graphCache, geojsonCache, heap, call>>

\* the generator is suspended at a yield after which the workflow is asked
\* for its next update
AtAstream(s) ==
    /\ streams[s] # NoStream
    /\ \/ streams[s].pc = "start"
       \/ streams[s].pc = "data"
       \/ streams[s].pc = "notified" /\ ~HasDataEvent(streams[s].node, streams[s].state)

\* the node the workflow runs next, END when it is over
Upcoming(s) ==
    IF streams[s].pc = "start" THEN "data_ingestion"
    ELSE NextNode(streams[s].node, streams[s].state)

\* what running `node` does to the workflow state, the heap and the graph
\* cache, for each outcome of the external calls it makes
NodeOutcomes(s, node) ==
    LET st == streams[s].state
        same(state) == [state |-> state, heap |-> heap, cache |-> graphCache]
    IN  CASE node = "data_ingestion" ->
                 IF graphCache # NoFile
                 THEN LET f == fetch_city_graph(graphCache, << >>, 0)
                          r == data_ingestion_ok(s, st, heap, f.G)
                      IN  {[state |-> r.state, heap |-> r.heap, cache |-> f.cache]}
                 ELSE {same(ErrorUpdate(st, "data_ingestion"))}
                      \cup UNION {{[state |-> r.state, heap |-> r.heap, cache |-> f.cache]
                               : r \in {data_ingestion_ok(s, st, heap, f.G)}}
                            : f \in {fetch_city_graph(graphCache, osm, salt)
                                      : osm \in OsmGraphs, salt \in HashSalts}}
          [] node = "simulation_engine" -> {same(simulation_engine_agent(st, heap))}
          [] node = "citizen_proxy" -> {same(citizen_proxy_agent(st, p)) : p \in RunProfiles}
          [] node = "policy_testing" ->
                 {LET r == policy_testing_agent(s, st, heap, Malformed, {})
                  IN  [state |-> r.state, heap |-> r.heap, cache |-> graphCache]}
                 \cup UNION {
                       {LET r == policy_testing_agent(s, st, heap, pp, spill)
                        IN  [state |-> r.state, heap |-> r.heap, cache |-> graphCache]
                        : spill \in IF st.city_graph_data = EmptyDict THEN {{}}
                                    ELSE SpillOptions(heap[st.city_graph_data], pp)}
                       : pp \in RunPolicies}
          [] node = "impact_analysis" -> {same(impact_analysis_agent(st))}
          [] node = "recommendation" -> {same(recommendation_agent(st))}

\* a resumption in which the workflow runs one node and run_simulation_stream
\* yields its agent_complete event
PullRunNode(s) ==
    /\ AtAstream(s)
    /\ Upcoming(s) # END
    /\ \E o \in NodeOutcomes(s, Upcoming(s)) :
          /\ heap' = o.heap
          /\ graphCache' = o.cache
          /\ streams' = [streams EXCEPT ![s] =
                [Yield(s, "notified", AgentComplete(Upcoming(s), o.state))
                     EXCEPT !.node = Upcoming(s), !.state = o.state]]
    /\ UNCHANGED <<geojsonCache, compiled, jobs, call>>

\* the payload of the data event after `node`, and the GeoJSON cache after
\* computing it
DataPayload(s, node) ==
    LET st == streams[s].state
    IN  IF node = "policy_testing"
        THEN LET g == graph_to_geojson(heap[st.modified_graph_data].edges, geojsonCache)
             IN  [data |-> [geojson |-> g.geojson], cache |-> g.cache]
        ELSE [data |-> OutputGet(st, DataKey(node), InitialState[DataKey(node)]),
              cache |-> geojsonCache]

\* a resumption in which run_simulation_stream yields the data event of the
\* node it has just announced; event_generator stores it in accumulated
PullData(s) ==
    /\ streams[s] # NoStream
    /\ streams[s].pc = "notified"
    /\ HasDataEvent(streams[s].node, streams[s].state)
    /\ LET node == streams[s].node
           p == DataPayload(s, node)
           ev == DataEvent(DataKey(node), p.data)
       IN  /\ geojsonCache' = p.cache
           /\ streams' = [streams EXCEPT ![s] =
                 [Yield(s, "data", ev) EXCEPT !.accumulated = Put(@, DataKey(node), p.data)]]
    /\ UNCHANGED <<graphCache, compiled, jobs, heap, call>>

\* a resumption in which the workflow is over: run_simulation_stream yields
\* complete, and event_generator marks the job completed and stores the result
PullComplete(s) ==
    /\ AtAstream(s)
    /\ Upcoming(s) = END
    /\ jobs' = [jobs EXCEPT ![streams[s].job].status = "completed",
                            ![streams[s].job].result = streams[s].accumulated]
    /\ streams' = [streams EXCEPT ![s] = Yield(s, "complete", CompleteEvent)]
    /\ UNCHANGED <<graphCache, geojsonCache, compiled, heap, call>>

\* a resumption in which the node raises outside its own try block (the
\* Anthropic() constructor of citizen_proxy_agent and recommendation_agent):
\* the exception leaves the workflow and event_generator's handler runs
PullRaise(s) ==
    /\ AtAstream(s)
    /\ Upcoming(s) \in {"citizen_proxy", "recommendation"}
    /\ jobs' = [jobs EXCEPT ![streams[s].job].status = "error"]
    /\ streams' = [streams EXCEPT ![s] = Yield(s, "failed", ErrorEvent)]
    /\ UNCHANGED <<graphCache, geojsonCache, compiled, heap, call>>

\* the resumption after the last event: the generator returns
PullFinish(s) ==
    /\ streams[s] # NoStream
    /\ streams[s].pc \in {"complete", "failed"}
    /\ streams' = [streams EXCEPT ![s].pc = "finished"]
    /\ UNCHANGED <<graphCache, geojsonCache, compiled, jobs, heap, call>>

\* the client goes away while the generator is suspended at a yield: the
\* response stops iterating and the generator is closed (GeneratorExit /
\* CancelledError, which `except Exception` does not catch)
Disconnect(s) ==
    /\ streams[s] # NoStream
    /\ streams[s].pc \in {"start", "notified", "data", "complete", "failed"}
    /\ streams' = [streams EXCEPT ![s].pc = "closed"]
    /\ UNCHANGED <<graphCache, geojsonCache, compiled, jobs, heap, call>>

\* GET /city/kochi: the graph from the cache file or from a download, then
\* graph_to_geojson(G).  The response is the GeoJSON file's content after the
\* call.  (A failed download is answered 500 and changes nothing.)
get_kochi_geojson ==
    /\ \E f \in {fetch_city_graph(graphCache, osm, salt)
                  : osm \in OsmGraphs, salt \in HashSalts} :
          LET g == graph_to_geojson(graph_to_state_dict(f.G).edges, geojsonCache)
          IN  /\ graphCache' = f.cache
              /\ geojsonCache' = g.cache
    /\ UNCHANGED <<compiled, jobs, streams, heap, call>>

\* GET /city/kochi/metrics: the graph from the cache file or from a download
get_baseline_metrics ==
    /\ \E f \in {fetch_city_graph(graphCache, osm, salt)
                  : osm \in OsmGraphs, salt \in HashSalts} :
          graphCache' = f.cache
    /\ UNCHANGED <<geojsonCache, compiled, jobs, streams, heap, call>>

\* ------------------------------------- a direct call of the policy applier
\* the edges an input graph is made of: an enriched raw edge and the load
\* factor its generator drew
EdgeInputs ==
    { [highway |-> HwPrimary, lanes |-> 2, length |-> 110, name |-> NameMG, load |-> 5000],
      [highway |-> HwResidential, lanes |-> 1, length |-> 110, name |-> NoName, load |-> 7600],
      [highway |-> HwResidential, lanes |-> 1, length |-> 55, name |-> NoName, load |-> 4000] }

\* the enriched graph whose i-th edge, from node i to node i + 1, is es[i]
InputGraph(es) ==
    LET edges == [i \in 1..Len(es) |->
                    EnrichEdge([u |-> i, v |-> i + 1, key |-> 0, highway |-> es[i].highway,
                                lanes |-> es[i].lanes, length |-> es[i].length,
                                name |-> es[i].name],
                               es[i].load)]
    IN  graph_to_state_dict([nodes |-> NodesOf(edges), edges |-> edges])

\* the scenario of the specification's section 8: ten edges of capacity 1000,
\* flow 500 (ratio 0.5) and length 1000 m
ScenarioGraph ==
    LET edges == [i \in 1..10 |->
                    [u |-> i, v |-> i + 1, key |-> 0, highway |-> HwUnclassified,
                     name |-> NoName, lanes |-> 1, length |-> 1000, speed_kph |-> 50,
                     capacity |-> 1000, travel_time |-> 720, baseline_flow |-> 500,
                     congestion_ratio |-> 5000]]
    IN  graph_to_state_dict([nodes |-> NodesOf(edges), edges |-> edges])

InputGraphs ==
    {InputGraph(es) : es \in UNION {[1..n -> EdgeInputs] : n \in 0..MaxEdges}}
    \cup {ScenarioGraph}

KwRes == <<"R", "E", "S">>
\* the policy intents: every combination of these values, a key being
\* absent from the dict where its value is written << >>
ParamChoices ==
    [policy_type : {<<"road_closure">>, <<"new_route">>, <<"signal_timing">>,
                    <<"transit_add">>, <<"congestion_pricing">>, << >>},
     affected_road_keywords : {<< << >> >>, << <<NameMG>> >>, << <<NameNH, KwRes>> >>},
     scope : {<<"local">>, <<"corridor">>, <<"network-wide">>},
     estimated_affected_edges_pct : {<< >>, <<10>>, <<30>>, <<50>>}]
ParamsOf(c) == [k \in {k \in DOMAIN c : Len(c[k]) > 0} |-> c[k][1]]
InputParams == {ParamsOf(c) : c \in ParamChoices}

InRef == CityRef(0)
OutRef == FreshRef(0)

IdleCall == [phase |-> "idle"]

\* modified = _apply_policy_to_graph(graph_data, policy_params)
ApplyPolicyCall ==
    /\ call.phase = "ready"
    /\ \E spill \in SpillOptions(heap[InRef], call.policy_params) :
          LET r == apply_policy_to_graph(heap, InRef, OutRef, call.policy_params, spill)
          IN  /\ heap' = r.heap
              /\ call' = [call EXCEPT !.phase = "done", !.ret = r.ret, !.spill = spill]
    /\ UNCHANGED <<graphCache, geojsonCache, compiled, jobs, streams>>

\* ------------------------------------------------------- the specifications
ServerStart ==
    /\ graphCache = NoFile
    /\ geojsonCache = NoFile
    /\ compiled = FALSE
    /\ jobs = [j \in JobIds |-> NoJob]
    /\ streams = [s \in StreamIds |-> NoStream]

Init ==
    /\ ServerStart
    /\ heap = [r \in Refs |-> Null]
    /\ call = IdleCall

Next ==
    \/ \E j \in DOMAIN jobs : start_simulation(j)
    \/ \E s \in DOMAIN streams, j \in DOMAIN jobs : stream_simulation(s, j)
    \/ \E s \in DOMAIN streams : PullStart(s)
    \/ \E s \in DOMAIN streams : PullRunNode(s)
    \/ \E s \in DOMAIN streams : PullData(s)
    \/ \E s \in DOMAIN streams : PullComplete(s)
    \/ \E s \in DOMAIN streams : PullRaise(s)
    \/ \E s \in DOMAIN streams : PullFinish(s)
    \/ \E s \in DOMAIN streams : Disconnect(s)

Spec == Init /\ [][Next]_vars

\* The response iterates event_generator for as long as the client is
\* connected: a resumption that stays possible is eventually made.  Nothing
\* obliges a client to stay (Disconnect) or to issue a request.
Pull(s) ==
    \/ PullStart(s)
    \/ PullRunNode(s)
    \/ PullData(s)
    \/ PullComplete(s)
    \/ PullRaise(s)
    \/ PullFinish(s)

FairSpec == Spec /\ \A s \in StreamIds : WF_vars(Pull(s))

\* The service as a whole: the map requests next to the simulation requests,
\* with up to MaxRuns jobs and MaxRuns event generators alive at once, for
\* clients that stay connected until their stream ends
ServiceInit ==
    /\ graphCache = NoFile
    /\ geojsonCache = NoFile
    /\ compiled = FALSE
    /\ jobs = [j \in 1..MaxRuns |-> NoJob]
    /\ streams = [s \in 1..MaxRuns |-> NoStream]
    /\ heap = [r \in (0..MaxRuns) \X {"city_graph_data", "modified_graph_data"} |-> Null]
    /\ call = IdleCall

ServiceNext ==
    \/ \E j \in DOMAIN jobs : start_simulation(j)
    \/ \E s \in DOMAIN streams, j \in DOMAIN jobs : stream_simulation(s, j)
    \/ \E s \in DOMAIN streams : Pull(s)
    \/ get_kochi_geojson
    \/ get_baseline_metrics

ServiceSpec == ServiceInit /\ [][ServiceNext]_vars

\* The applier called directly on each input graph and each policy intent
PolicyInit ==
    /\ ServerStart
    /\ \E g \in InputGraphs :
          heap = [r \in Refs |-> IF r = InRef THEN g ELSE Null]
    /\ \E pp \in InputParams :
          call = [phase |-> "ready", policy_params |-> pp, pre |-> heap[InRef],
                  ret |-> Null, spill |-> {}]

PolicyNext == ApplyPolicyCall

PolicySpec == PolicyInit /\ [][PolicyNext]_vars

\* ---- the analyzer called directly
\* the largest metric value and the largest |delta_pct| (in 0.1 %) tried
MaxMetric == 12
MaxDelta == 200

NetworkMetricKeys ==
    {"avg_congestion_ratio", "avg_travel_time_min", "daily_co2_kg",
     "economic_loss_inr_per_day", "severe_congestion_pct"}

\* a metrics summary whose five network metrics are all v
Summary(v) == [k \in NetworkMetricKeys |-> v]

\* baseline summaries: the empty summary (every metric missing), all metrics
\* equal (all zero among them), and one metric zero among non-zero ones
BaselineSummaries ==
    {EmptyMetrics}
    \cup {Summary(v) : v \in 0..MaxMetric}
    \cup {[Summary(v) EXCEPT !["avg_congestion_ratio"] = 0] : v \in 1..MaxMetric}
PostSummaries == {EmptyMetrics} \cup {Summary(v) : v \in 0..MaxMetric}

\* the workflow state impact_analysis_agent is given
AnalysisState(baseline, post) ==
    [InitialState EXCEPT !.baseline_metrics = baseline,
                         !.simulation_results = [post_policy_metrics |-> post]]

\* citizen profile lists of up to MaxProfiles profiles: impact_score one of
\* -10, 5, 10 or missing, affected_population one of 0, 100, 300 or missing
MaxProfiles == 2
ProfileChoices ==
    {[impact_score |-> sc, affected_population |-> pop]
     : sc \in {<<0 - 10>>, <<5>>, <<10>>, << >>}, pop \in {<<0>>, <<100>>, <<300>>, << >>}}
ProfileOf(c, i) ==
    [k \in {"group", "impact_sentiment"}
          \cup (IF c.impact_score = << >> THEN {} ELSE {"impact_score"})
          \cup (IF c.affected_population = << >> THEN {} ELSE {"affected_population"})
       |-> CASE k = "group" -> IF i = 1 THEN "Daily Commuters" ELSE "Students"
             [] k = "impact_sentiment" -> "mixed"
             [] k = "impact_score" -> JNum(c.impact_score[1])
             [] k = "affected_population" -> JNum(c.affected_population[1])]
ProfileLists ==
    UNION {{[i \in 1..n |-> ProfileOf(cs[i], i)] : cs \in [1..n -> ProfileChoices]}
           : n \in 0..MaxProfiles}

ImpactCalls ==
    {[phase |-> "ready", fn |-> "impact_analysis_agent",
      state |-> AnalysisState(b, p), ret |-> Null]
     : b \in BaselineSummaries, p \in PostSummaries}
    \cup {[phase |-> "ready", fn |-> "impact_analysis_agent",
           state |-> [AnalysisState(Summary(1), Summary(1)) EXCEPT !.citizen_profiles = ps],
           ret |-> Null]
          : ps \in ProfileLists}

SeverityCalls ==
    {[phase |-> "ready", fn |-> "_severity", delta_pct |-> x, direction |-> d, ret |-> Null]
     : x \in (0 - MaxDelta)..MaxDelta, d \in {"lower_is_better", "higher_is_better"}}

\* impact_analysis_agent(state)
ImpactCall ==
    /\ call.phase = "ready"
    /\ call.fn = "impact_analysis_agent"
    /\ call' = [call EXCEPT !.phase = "done", !.ret = impact_analysis_agent(call.state)]
    /\ UNCHANGED <<graphCache, geojsonCache, compiled, jobs, streams, heap>>

\* _severity(delta_pct, direction), delta_pct in units of 0.1 %
SeverityCall ==
    /\ call.phase = "ready"
    /\ call.fn = "_severity"
    /\ call' = [call EXCEPT !.phase = "done",
                            !.ret = severity(call.delta_pct, 10, call.direction)]
    /\ UNCHANGED <<graphCache, geojsonCache, compiled, jobs, streams, heap>>

AnalysisInit ==
    /\ ServerStart
    /\ heap = [r \in Refs |-> Null]
    /\ call \in ImpactCalls \cup SeverityCalls

AnalysisNext == ImpactCall \/ SeverityCall

AnalysisSpec == AnalysisInit /\ [][AnalysisNext]_vars

\* ---- _enrich_graph called directly, in one process and in the next
\* the enrichments of one raw graph, and the processes that make them
MaxEnrichments == 2
MaxProcesses == 2

\* raw OSM edges: edge i of a raw graph runs from node i to node i + 1
RawEdgeInputs ==
    { [highway |-> HwPrimary, lanes |-> 2, length |-> 110, name |-> NameMG],
      [highway |-> HwResidential, lanes |-> 1, length |-> 110, name |-> NoName],
      [highway |-> HwResidential, lanes |-> 1, length |-> 55, name |-> NoName] }
RawGraph(es) ==
    [i \in 1..Len(es) |->
        [u |-> i, v |-> i + 1, key |-> 0, highway |-> es[i].highway,
         lanes |-> es[i].lanes, length |-> es[i].length, name |-> es[i].name]]
RawGraphs ==
    {RawGraph(es) : es \in UNION {[1..n -> RawEdgeInputs] : n \in 0..MaxEdges}}
    \cup {OsmCity}

\* G = _enrich_graph(G) on a fresh copy of the raw graph
EnrichCall ==
    /\ call.phase = "ready"
    /\ LET runs == Append(call.runs,
                          [process |-> call.process,
                           G |-> enrich_graph(call.raw, call.salt)])
       IN  call' = [call EXCEPT !.runs = runs,
                                !.phase = IF Len(runs) = MaxEnrichments
                                          THEN "done" ELSE "ready"]
    /\ UNCHANGED <<graphCache, geojsonCache, compiled, jobs, streams, heap>>

\* the process ends and the next one starts: a new interpreter, a new salt
StartProcess ==
    /\ call.phase = "ready"
    /\ call.process < MaxProcesses
    /\ \E salt \in HashSalts :
          call' = [call EXCEPT !.process = @ + 1, !.salt = salt]
    /\ UNCHANGED <<graphCache, geojsonCache, compiled, jobs, streams, heap>>

EnrichInit ==
    /\ ServerStart
    /\ heap = [r \in Refs |-> Null]
    /\ \E raw \in RawGraphs, salt \in HashSalts :
          call = [phase |-> "ready", fn |-> "_enrich_graph", raw |-> raw,
                  process |-> 1, salt |-> salt, runs |-> << >>]

EnrichNext == EnrichCall \/ StartProcess

EnrichSpec == EnrichInit /\ [][EnrichNext]_vars

\* ================================================================ claims
LiveStreams == {s \in DOMAIN streams : streams[s] # NoStream}
JobOf(s) == jobs[streams[s].job]

\* the agent_complete events a stream has yielded, in order
Notifications(s) == SelectSeq(streams[s].events, LAMBDA e : e.type = "agent_complete")

\* C1: in every run the stages execute in the fixed order data_ingestion,
\* simulation_engine, citizen_proxy, policy_testing, impact_analysis,
\* recommendation: the i-th stage to run is the i-th of that list (so none runs
\* twice and none is skipped), a stage runs only after its predecessor ended
\* without error, and a run that ends completed has run all six.
C1_StagesInOrder ==
    \A s \in LiveStreams :
        LET logs == streams[s].state.agent_logs
        IN  /\ Len(logs) <= Len(Stages)
            /\ \A i \in 1..Len(logs) : logs[i][1] = Stages[i]
            /\ \A i \in 2..Len(logs) : logs[i - 1][2] # "error"
            /\ streams[s].state.status = "completed" => Len(logs) = Len(Stages)

C1_Witness ==
    \E s \in LiveStreams :
        /\ streams[s].state.status = "completed"
        /\ Len(streams[s].state.agent_logs) = 6
        /\ streams[s].pc = "complete"

\* C2: if a stage returns status error the workflow halts at once: no stage
\* runs after it, and the fields that the failing stage and the stages after it
\* would have written (modified_graph_data, impact_scores, recommendations)
\* keep their initial empty values, in the workflow state and in the
\* accumulator of the stream.
C2_ErrorHalts ==
    \A s \in LiveStreams :
        LET st == streams[s].state
            acc == streams[s].accumulated
            logs == st.agent_logs
            k == Len(logs)
        IN  /\ \A i \in 1..(k - 1) : logs[i][2] # "error"
            /\ (k >= 1 /\ logs[k][2] = "error") => st.status = "error"
            /\ st.status = "error" =>
                  /\ k >= 1
                  /\ logs[k] = <<Stages[k], "error">>
                  /\ streams[s].node = Stages[k]
                  /\ k <= 4 => /\ st.modified_graph_data = InitialState.modified_graph_data
                               /\ "modified_graph_data" \notin DOMAIN acc
                  /\ k <= 5 => /\ st.impact_scores = InitialState.impact_scores
                               /\ acc.impact_scores = InitialAccumulated.impact_scores
                  /\ st.recommendations = InitialState.recommendations
                  /\ acc.recommendations = InitialAccumulated.recommendations

C2_Witness ==
    \E s \in LiveStreams :
        /\ streams[s].state.status = "error"
        /\ streams[s].node = "data_ingestion"
        /\ streams[s].pc = "complete"

\* C3: when a stage of a run ends with status error, the job of that run is
\* never set to completed, no complete event is sent, and the job's status
\* is error once the stream has ended.
C3_StageErrorIsJobError ==
    \A s \in LiveStreams :
        streams[s].state.status = "error" =>
            /\ JobOf(s).status # "completed"
            /\ \A i \in 1..Len(streams[s].events) : streams[s].events[i].type # "complete"
            /\ streams[s].pc = "finished" => JobOf(s).status = "error"

\* C4: run_simulation_stream yields exactly one agent_complete event per stage
\* that ran, in stage order, carrying the stage's identifier, its status line
\* and its status; and every data event directly follows the agent_complete
\* event of the stage whose result it carries.
C4_OneNotificationPerStage ==
    \A s \in LiveStreams :
        LET ev == streams[s].events
            N == Notifications(s)
            st == streams[s].state
            logs == st.agent_logs
        IN  /\ Len(N) = Len(logs)
            /\ \A i \in 1..Len(N) :
                  /\ N[i].agent = Stages[i]
                  /\ N[i].message = logs[i]
                  /\ N[i].status = IF i = Len(logs) THEN st.status ELSE "running"
            /\ \A p \in 1..Len(ev) :
                  ev[p].type = "data" =>
                      /\ p > 1
                      /\ ev[p - 1].type = "agent_complete"
                      /\ ev[p].key = DataKey(ev[p - 1].agent)

C4_Witness ==
    \E s \in LiveStreams :
        /\ streams[s].pc = "complete"
        /\ Len(Notifications(s)) = 6
        /\ Cardinality({p \in 1..Len(streams[s].events) : streams[s].events[p].type = "data"}) = 5
        /\ Notifications(s)[6].status = "completed"

\* C5: once a run has started, the job's status eventually becomes completed or
\* error; it does not stay running for ever.
C5_RunTerminates ==
    \A j \in JobIds :
        (jobs[j] # NoJob /\ jobs[j].status = "running")
            ~> (jobs[j] # NoJob /\ jobs[j].status \in {"completed", "error"})

\* ---- a direct call of _apply_policy_to_graph, once it has returned
CallDone == call.phase = "done"
InputEdges == call.pre.edges
ReturnedEdges == heap[call.ret].edges
ReturnedPrimary == heap[call.ret].primary_affected_edges
CallPct == Get(call.policy_params, "estimated_affected_edges_pct", 5)
IsRoadClosure == Get(call.policy_params, "policy_type", "road_closure") = "road_closure"
\* the edges whose name or road class contains a keyword
CallMatches ==
    {i \in 1..Len(InputEdges) : EdgeMatches(InputEdges[i], KeywordsOf(call.policy_params))}

\* C6: _apply_policy_to_graph never mutates its input: after the call the
\* object passed in (edges with every attribute, node set, counts) equals its
\* value before the call, and the object returned is another object.
C6_InputUntouched ==
    CallDone => /\ heap[InRef] = call.pre
                /\ call.ret # InRef

C6_Witness ==
    /\ CallDone
    /\ ReturnedEdges # InputEdges
    /\ heap[InRef] = call.pre

\* C7 as stated: the number of targeted edges is
\* max(1, round(edge_count * pct / 100)), the product rounded to the nearest
\* integer; seen in the size of the primary set, which is that number unless
\* the graph has fewer edges.
C7_TargetCountRoundedToNearest ==
    CallDone =>
        Cardinality(ReturnedPrimary) =
            Min(Len(InputEdges), Max(1, RoundDiv(Len(InputEdges) * CallPct, 100)))

\* C7 amended: the number of targeted edges is
\* max(1, int(edge_count * pct / 100)), the product truncated toward zero
\* before the floor of 1 is applied.
C7_TargetCountTruncated ==
    CallDone =>
        Cardinality(ReturnedPrimary) =
            Min(Len(InputEdges), Max(1, (Len(InputEdges) * CallPct) \div 100))

\* three edges at 50 %: the product is 1.5, one edge is targeted
C7_Witness ==
    /\ CallDone
    /\ Len(InputEdges) = 3
    /\ CallPct = 50
    /\ Cardinality(ReturnedPrimary) = 1

C9_PrimaryEdgesClosed ==
    (CallDone /\ IsRoadClosure) =>
        \A i \in ReturnedPrimary :
            /\ ReturnedEdges[i].congestion_ratio = 0
            /\ ReturnedEdges[i].baseline_flow = 0
            /\ "closed" \in DOMAIN ReturnedEdges[i]
            /\ ReturnedEdges[i].closed = TRUE

C9_Witness ==
    /\ CallDone
    /\ IsRoadClosure
    /\ call.spill # {}
    /\ \E i \in ReturnedPrimary :
          /\ InputEdges[i].congestion_ratio > 0
          /\ InputEdges[i].baseline_flow > 0
          /\ ReturnedEdges[i].congestion_ratio = 0

\* C10: for road_closure the spillover set is min(number of non-primary edges,
\* 3 * target_count) distinct non-primary edges; a spillover edge's congestion
\* ratio becomes min(1.0, old * 1.35) and its other attributes stay; every
\* other non-primary edge is unchanged.  Ten edges at ratio 0.5 with pct = 10
\* give 1 closed edge, 3 edges at 0.675 and 6 at 0.5.
C10_Spillover ==
    (CallDone /\ IsRoadClosure) =>
        LET n == Len(InputEdges)
            tc == Max(1, (n * CallPct) \div 100)
            O == (1..n) \ ReturnedPrimary
            S == call.spill
            at(r) == Cardinality({i \in 1..n : ReturnedEdges[i].congestion_ratio = r})
        IN  /\ S \subseteq O
            /\ Cardinality(S) = Min(Cardinality(O), 3 * tc)
            /\ \A i \in S :
                  ReturnedEdges[i] =
                      [InputEdges[i] EXCEPT !.congestion_ratio =
                          Min(Scale, (InputEdges[i].congestion_ratio * 135) \div 100)]
            /\ \A i \in O \ S : ReturnedEdges[i] = InputEdges[i]
            /\ (call.pre = ScenarioGraph /\ CallPct = 10) =>
                  /\ at(0) = 1
                  /\ at(6750) = 3
                  /\ at(5000) = 6

C10_Witness ==
    /\ CallDone
    /\ IsRoadClosure
    /\ call.pre = ScenarioGraph
    /\ CallPct = 10
    /\ Cardinality(call.spill) = 3
    /\ Cardinality({i \in 1..10 : "closed" \in DOMAIN ReturnedEdges[i]}) = 1

CallPolicyType == Get(call.policy_params, "policy_type", "road_closure")
CallScope == Get(call.policy_params, "scope", "local")
IsModalShift == CallPolicyType \in {"new_route", "transit_add"}
NonPrimary == (1..Len(InputEdges)) \ ReturnedPrimary

\* C11: for an intent with policy_type new_route or transit_add, every primary
\* edge's congestion ratio after the call is at most its ratio before the call
\* and at least 0.1.
C11_PrimaryRelieved ==
    (CallDone /\ IsModalShift) =>
        \A i \in ReturnedPrimary :
            /\ ReturnedEdges[i].congestion_ratio <= InputEdges[i].congestion_ratio
            /\ ReturnedEdges[i].congestion_ratio * 10 >= Scale

C11_Witness ==
    /\ CallDone
    /\ CallPolicyType = "transit_add"
    /\ \E i \in ReturnedPrimary :
          ReturnedEdges[i].congestion_ratio < InputEdges[i].congestion_ratio

\* C12: for new_route and transit_add a non-primary edge changes only under
\* scope network-wide, where its congestion ratio becomes max(0.1, old * 0.95)
\* and nothing else of it changes; under scope local or corridor it is
\* unchanged; and under every scope no edge's travel_time changes and no edge
\* gets a closed flag.
C12_NonPrimaryFrame ==
    (CallDone /\ IsModalShift) =>
        /\ \A i \in NonPrimary :
              IF CallScope = "network-wide"
              THEN ReturnedEdges[i] =
                       [InputEdges[i] EXCEPT !.congestion_ratio =
                           Max(Scale \div 10, (InputEdges[i].congestion_ratio * 95) \div 100)]
              ELSE ReturnedEdges[i] = InputEdges[i]
        /\ \A i \in 1..Len(InputEdges) :
              /\ ReturnedEdges[i].travel_time = InputEdges[i].travel_time
              /\ "closed" \notin DOMAIN ReturnedEdges[i]

C12_Witness ==
    /\ CallDone
    /\ CallPolicyType = "new_route"
    /\ CallScope = "network-wide"
    /\ ReturnedPrimary # {}
    /\ \E i \in NonPrimary :
          ReturnedEdges[i].congestion_ratio < InputEdges[i].congestion_ratio

\* C13: for signal_timing every edge, primary or not, has travel_time equal to
\* its travel_time before the call divided by 1.10 (to the precision of the
\* representation) and congestion ratio max(0.1, old * 0.90), and its
\* baseline_flow and other attributes are unchanged.
C13_SignalTiming ==
    (CallDone /\ CallPolicyType = "signal_timing") =>
        \A i \in 1..Len(InputEdges) :
            LET old == InputEdges[i]
                new == ReturnedEdges[i]
            IN  /\ new.travel_time * 110 <= old.travel_time * 100
                /\ old.travel_time * 100 < (new.travel_time + 1) * 110
                /\ new.congestion_ratio =
                       Max(Scale \div 10, (old.congestion_ratio * 90) \div 100)
                /\ new.baseline_flow = old.baseline_flow
                /\ new = [old EXCEPT !.travel_time = new.travel_time,
                                     !.congestion_ratio = new.congestion_ratio]

C13_Witness ==
    /\ CallDone
    /\ CallPolicyType = "signal_timing"
    /\ NonPrimary # {}
    /\ \A i \in 1..Len(InputEdges) :
          ReturnedEdges[i].travel_time < InputEdges[i].travel_time

\* C14: when the intent's policy_type is missing or is none of road_closure,
\* new_route, signal_timing, transit_add, the applier returns what it returns
\* for road_closure with no keywords, scope local and 5 percent: policy_applied
\* is road_closure, the primary edges are those of that intent, and each of
\* them is closed.
C14_UnknownTypeFallsBack ==
    (CallDone /\ CallPolicyType \notin {"new_route", "signal_timing", "transit_add"}
             /\ ("policy_type" \notin DOMAIN call.policy_params
                    \/ call.policy_params.policy_type # "road_closure")) =>
        /\ heap[call.ret].policy_applied = "road_closure"
        /\ ReturnedPrimary =
               PrimaryEdges(InputEdges, << >>, TargetCount(Len(InputEdges), DefaultParams))
        /\ \A i \in ReturnedPrimary :
              /\ "closed" \in DOMAIN ReturnedEdges[i]
              /\ ReturnedEdges[i].congestion_ratio = 0
              /\ ReturnedEdges[i].baseline_flow = 0

\* the edge id "u-v-key" of an edge
EdgeId(e) == <<e.u, e.v, e.key>>

\* C15: for every state and every intent the returned state has the same edge
\* ids, in the same order, the same node ids, and the same edge_count and
\* node_count as the input; no edge gains or loses an attribute other than
\* the closed flag.
C15_StructurePreserved ==
    CallDone =>
        /\ Len(ReturnedEdges) = Len(InputEdges)
        /\ {EdgeId(ReturnedEdges[i]) : i \in 1..Len(ReturnedEdges)}
               = {EdgeId(InputEdges[i]) : i \in 1..Len(InputEdges)}
        /\ \A i \in 1..Len(InputEdges) :
              i <= Len(ReturnedEdges) =>
                  /\ EdgeId(ReturnedEdges[i]) = EdgeId(InputEdges[i])
                  /\ DOMAIN ReturnedEdges[i] \ {"closed"} = DOMAIN InputEdges[i]
        /\ heap[call.ret].nodes = call.pre.nodes
        /\ heap[call.ret].edge_count = call.pre.edge_count
        /\ heap[call.ret].node_count = call.pre.node_count
        /\ heap[call.ret].edge_count = Len(ReturnedEdges)
        /\ heap[call.ret].node_count = Cardinality(heap[call.ret].nodes)

C15_Witness ==
    /\ CallDone
    /\ Len(InputEdges) >= 2
    /\ \E i \in 1..Len(ReturnedEdges) : "closed" \in DOMAIN ReturnedEdges[i]
    /\ \E i \in 1..Len(ReturnedEdges) :
          ReturnedEdges[i].congestion_ratio > InputEdges[i].congestion_ratio

\* C16: in the baseline state every edge's congestion ratio lies strictly
\* between 0 and 1; in the state a single policy produces from it every ratio
\* lies in [0, 1], is 0 only on an edge closed by road_closure and is 1 only
\* on a spillover edge.
C16_CongestionRange ==
    /\ call.phase \in {"ready", "done"} =>
          \A i \in 1..Len(InputEdges) :
              /\ InputEdges[i].congestion_ratio > 0
              /\ InputEdges[i].congestion_ratio < Scale
    /\ CallDone =>
          \A i \in 1..Len(ReturnedEdges) :
              LET r == ReturnedEdges[i].congestion_ratio
              IN  /\ r >= 0
                  /\ r <= Scale
                  /\ r = 0 => /\ IsRoadClosure
                              /\ i \in ReturnedPrimary
                              /\ "closed" \in DOMAIN ReturnedEdges[i]
                  /\ r = Scale => /\ IsRoadClosure
                                  /\ i \in call.spill

C16_Witness ==
    /\ CallDone
    /\ \E i \in 1..Len(ReturnedEdges) : ReturnedEdges[i].congestion_ratio = Scale
    /\ \E i \in 1..Len(ReturnedEdges) : ReturnedEdges[i].congestion_ratio = 0

\* the graph states a run holds: its baseline state and, once the policy has
\* been applied, its post-policy state
GraphStatesOf(s) ==
    {streams[s].state.city_graph_data, streams[s].state.modified_graph_data} \ {EmptyDict}

\* C17: every road segment, in the baseline state and in every post-policy
\* state of a run, has capacity = per-lane capacity of its road class * lanes
\* (lanes as the enriched graph records them) and
\* travel_time = length / (speed_kph / 3.6).
C17_SegmentInvariant ==
    \A s \in LiveStreams :
        \A ref \in GraphStatesOf(s) :
            \A i \in 1..Len(heap[ref].edges) :
                LET e == heap[ref].edges[i]
                IN  /\ e.capacity = CAPACITY_PER_LANE(e.highway) * graphCache.edges[i].lanes
                    /\ e.travel_time = (e.length * 36) \div e.speed_kph

\* the metrics of a summary
MetricKeys ==
    {"avg_congestion_ratio", "severe_congestion_pct", "avg_travel_time_min",
     "total_vehicle_flow", "daily_co2_kg", "economic_loss_inr_per_day"}

\* C18: for a state with zero edges compute_baseline_metrics returns a defined
\* empty summary, every metric read from it is zero, and the stages that run
\* after it on that state do not fail.
C18_EmptyGraphDefined ==
    \A s \in LiveStreams :
        LET st == streams[s].state
        IN  (st.city_graph_data # EmptyDict /\ heap[st.city_graph_data].edges = << >>) =>
                /\ st.baseline_metrics = EmptyMetrics
                /\ \A k \in MetricKeys : Get(st.baseline_metrics, k, 0) = 0
                /\ st.status # "error"

\* ---- a direct call of the analyzer, once it has returned
Analysed == call.phase = "done" /\ call.fn = "impact_analysis_agent"
\* the entry of impact_scores that reports a network metric
EntryOf(key) ==
    CASE key = "avg_congestion_ratio" -> "congestion"
      [] key = "avg_travel_time_min" -> "travel_time"
      [] key = "daily_co2_kg" -> "co2_emissions"
      [] key = "economic_loss_inr_per_day" -> "economic_loss"
      [] key = "severe_congestion_pct" -> "severe_congestion_roads"
AnalysedBefore(key) == Get(call.state.baseline_metrics, key, 0)
AnalysedAfter(key) == Get(call.state.simulation_results.post_policy_metrics, key, 0)
AnalysedDelta(key) == call.ret.impact_scores[EntryOf(key)].delta_pct

\* C19: the analyzer does not fail, whatever the baseline (every metric zero or
\* missing included), and for each of the five network metrics delta_pct is 0
\* when the baseline value is 0 and otherwise the multiple of 0.1 nearest to
\* (after - before) / before * 100.
C19_DeltaPct ==
    Analysed =>
        /\ call.ret.status # "error"
        /\ \A key \in NetworkMetricKeys :
              LET before == AnalysedBefore(key)
                  after == AnalysedAfter(key)
                  d == AnalysedDelta(key)
                  off == d * before - (after - before) * 1000
              IN  /\ before = 0 => d = 0
                  /\ before # 0 => /\ 2 * off <= before
                                   /\ 2 * off >= 0 - before

\* a zero baseline with a non-zero value after, next to a quotient that has
\* to be rounded up (2 / 3)
C19_Witness ==
    /\ Analysed
    /\ AnalysedBefore("avg_congestion_ratio") = 0
    /\ AnalysedAfter("avg_congestion_ratio") = 5
    /\ AnalysedDelta("avg_congestion_ratio") = 0
    /\ AnalysedBefore("daily_co2_kg") = 3
    /\ AnalysedDelta("daily_co2_kg") = 667

\* C20: for lower_is_better the severity of delta_pct is highly_positive below
\* -15, positive from -15 to below -5, neutral from -5 to below 5, negative
\* from 5 to below 15 and highly_negative from 15 on; delta_pct is in 0.1 %.
C20_SeverityBuckets ==
    (call.phase = "done" /\ call.fn = "_severity" /\ call.direction = "lower_is_better") =>
        LET x == call.delta_pct
        IN  /\ call.ret = "highly_positive" <=> x < 0 - 150
            /\ call.ret = "positive" <=> (0 - 150 <= x /\ x < 0 - 50)
            /\ call.ret = "neutral" <=> (0 - 50 <= x /\ x < 50)
            /\ call.ret = "negative" <=> (50 <= x /\ x < 150)
            /\ call.ret = "highly_negative" <=> 150 <= x

C20_Witness ==
    /\ call.phase = "done"
    /\ call.fn = "_severity"
    /\ call.direction = "lower_is_better"
    /\ call.delta_pct = 0 - 150
    /\ call.ret = "positive"

\* C21: the higher_is_better direction mirrors the lower_is_better one: the
\* severity returned for delta_pct d under higher_is_better is the severity
\* the function gives -d under lower_is_better, the thresholds 5, 15, -5 and
\* -15 included.
C21_SeverityMirrored ==
    (call.phase = "done" /\ call.fn = "_severity" /\ call.direction = "higher_is_better") =>
        call.ret = severity(0 - call.delta_pct, 10, "lower_is_better")

\* the threshold 15 itself: positive, as -15 is under lower_is_better
C21_Witness ==
    /\ call.phase = "done"
    /\ call.fn = "_severity"
    /\ call.direction = "higher_is_better"
    /\ call.delta_pct = 150
    /\ call.ret = "positive"

\* ---- the citizen composite of a direct call of the analyzer
AnalysedProfiles == call.state.citizen_profiles
AnalysedSatisfaction == call.ret.impact_scores.citizen_satisfaction
\* the population of profile p, and `missing` for a profile without the field
PopulationOf(p, missing) == Val(Get(p, "affected_population", JNum(missing)))
TotalPopulation(missing) ==
    SumSeq([i \in 1..Len(AnalysedProfiles) |-> PopulationOf(AnalysedProfiles[i], missing)])
WeightedScores(missing) ==
    SumSeq([i \in 1..Len(AnalysedProfiles) |->
              Val(Get(AnalysedProfiles[i], "impact_score", JNum(0)))
                * PopulationOf(AnalysedProfiles[i], missing)])
\* q is a / b rounded to the nearest integer (b > 0)
IsNearest(q, a, b) == 2 * (q * b - a) <= b /\ 2 * (q * b - a) >= 0 - b

\* C22: for a non-empty profile list with a positive total population the
\* composite satisfaction (kept to 0.01) is the population-weighted mean
\* sum(impact_score * affected_population) / sum(affected_population), the
\* numerator and the denominator counting the same population for every
\* profile, a profile without the field included (as 0 in both or 1 in both).
C22_PopulationWeightedMean ==
    (Analysed /\ Len(AnalysedProfiles) > 0 /\ TotalPopulation(1) > 0) =>
        /\ call.ret.status # "error"
        /\ \E missing \in {0, 1} :
              /\ TotalPopulation(missing) > 0
              /\ IsNearest(AnalysedSatisfaction.score,
                           WeightedScores(missing) * 100, TotalPopulation(missing))

\* C23: with no profiles at all, or with every profile reporting an
\* affected_population of 0, the analyzer returns status running, a composite
\* satisfaction of 0 and the severity neutral.
C23_NobodyAffected ==
    (/\ Analysed
     /\ \A i \in 1..Len(AnalysedProfiles) :
           /\ "affected_population" \in DOMAIN AnalysedProfiles[i]
           /\ PopulationOf(AnalysedProfiles[i], 0) = 0) =>
        /\ call.ret.status = "running"
        /\ AnalysedSatisfaction.score = 0
        /\ AnalysedSatisfaction.severity = "neutral"

\* two profiles with scores 10 and 5, both affecting nobody
C23_Witness ==
    /\ Analysed
    /\ Len(AnalysedProfiles) = 2
    /\ \A i \in 1..2 : Get(AnalysedProfiles[i], "affected_population", JNum(1)) = JNum(0)
    /\ Get(AnalysedProfiles[1], "impact_score", JNum(0)) = JNum(10)
    /\ Get(AnalysedProfiles[2], "impact_score", JNum(0)) = JNum(5)
    /\ AnalysedSatisfaction.score = 0
    /\ AnalysedSatisfaction.severity = "neutral"

\* C24: enrichment is reproducible: any two enrichments of the same raw graph,
\* made in one process or in two, give every edge the same load factor
\* (congestion_ratio) and the same baseline_flow.
C24_EnrichmentReproducible ==
    \A i, j \in 1..Len(call.runs) :
        \A e \in 1..Len(call.raw) :
            /\ call.runs[i].G.edges[e].congestion_ratio
                  = call.runs[j].G.edges[e].congestion_ratio
            /\ call.runs[i].G.edges[e].baseline_flow
                  = call.runs[j].G.edges[e].baseline_flow

\* ---- the runs of the service
\* streams whose modified_graph_data data event has been emitted and stored
Mapped == {s \in LiveStreams : "modified_graph_data" \in DOMAIN streams[s].accumulated}
MappedGeojson(s) == streams[s].accumulated["modified_graph_data"].geojson
\* the graph a run ingested and the graph its policy stage returned
OwnBaseline(s) == heap[streams[s].state.city_graph_data]
OwnModified(s) == heap[streams[s].state.modified_graph_data]

\* C25: runs share no mutable state, so what a run reports is what it would
\* report had it executed alone: its baseline metrics are those of the graph it
\* ingested, its impact scores those of its own metrics and profiles, the map
\* it reports is computed from its own graphs (its post-policy graph or, after
\* a map request, its baseline), and the result stored for a job that only
\* this run serves is this run's accumulator.
C25_RunsIndependent ==
    \A s \in LiveStreams :
        LET run == streams[s]
            alone == {t \in LiveStreams : streams[t].job = run.job} = {s}
        IN  /\ run.accumulated.baseline_metrics # EmptyDict =>
                  run.accumulated.baseline_metrics = compute_baseline_metrics(OwnBaseline(s))
            /\ s \in Mapped =>
                  MappedGeojson(s) \in {FeatureCollection(OwnModified(s).edges),
                                        FeatureCollection(OwnBaseline(s).edges)}
            /\ run.accumulated.impact_scores # EmptyDict =>
                  run.accumulated.impact_scores
                    = ImpactScores(run.state.baseline_metrics,
                                   run.state.simulation_results.post_policy_metrics,
                                   run.state.citizen_profiles)
            /\ (alone /\ \E i \in DOMAIN run.events : run.events[i] = CompleteEvent) =>
                  jobs[run.job].result = run.accumulated

\* C26: the modified_graph_data event carries the post-policy graph: for every
\* edge whose congestion ratio the policy changed, the feature's
\* congestion_ratio is the post-policy ratio (to three decimals), with or
\* without a GeoJSON cache file.
C26_ModifiedMapIsPostPolicy ==
    \A s \in Mapped :
        LET features == MappedGeojson(s).features
            before == OwnBaseline(s).edges
            after == OwnModified(s).edges
        IN  \A i \in 1..Len(after) :
                before[i].congestion_ratio # after[i].congestion_ratio =>
                    /\ i \in DOMAIN features
                    /\ features[i].congestion_ratio = RoundDiv(after[i].congestion_ratio, 10)

\* C27: the GeoJSON cache file, when it exists, holds the GeoJSON of the
\* unmodified baseline graph (the graph of the graph cache file), whatever map
\* requests and simulation runs came before.
C27_CacheIsBaseline ==
    geojsonCache # NoFile =>
        /\ graphCache # NoFile
        /\ geojsonCache = FeatureCollection(graph_to_state_dict(graphCache).edges)

\* the rank of a job status in the order queued, running, completed or error
StatusRank(status) ==
    CASE status = "queued" -> 0
      [] status = "running" -> 1
      [] status \in {"completed", "error"} -> 2

\* C28: a job status only moves forward (queued, running, then completed or
\* error), and a job that is completed or in error is never changed again:
\* neither its status nor its stored result.
C28_JobStatusForwardOnly ==
    [][\A j \in DOMAIN jobs :
           jobs[j] # NoJob =>
               /\ StatusRank(jobs'[j].status) >= StatusRank(jobs[j].status)
               /\ jobs[j].status \in {"completed", "error"} => jobs'[j] = jobs[j]]_vars

====
